---- MODULE Spec2Model ----
(***************************************************************************)
(* Model of the DigiSanchaar SOS backend: the POST /api/trigger-sos        *)
(* handler (nearby push fan-out over a geohash-indexed user collection,    *)
(* then sequential email + call to the emergency contacts).                *)
(*                                                                         *)
(* A behaviour is the handling of one request (Spec, FairSpec) or of two    *)
(* requests whose remote calls interleave (TwoSpec).  A step is either the *)
(* synchronous start of a handler or the settlement of one remote call     *)
(* (range query, push send, email send, call creation) together with the   *)
(* handler code that runs in the same turn of the event loop, up to the    *)
(* next await.  The handler's local variables are indexed by the request.  *)
(*                                                                         *)
(* The POST /api/save-subscription handler (SaveSpec) and the activate and *)
(* navigation fetch handlers of public/sw.js (SwSpec) are modelled the     *)
(* same way, each in behaviours of its own.                                *)
(***************************************************************************)
EXTENDS Integers, Sequences, FiniteSets

\* ---------------------------------------------------------------- bounds
MaxContacts == 2
NumRanges == 2

\* ------------------------------------------------------------- constants
radiusInM == 5 * 1000

Users == {"u1", "u2", "u3"}
UserOrder == <<"u1", "u2", "u3">>

\* The uid of a request: that of a stored user, or of one without a document.
Uids == {"u1", "u0"}

\* Firebase initialised / public VAPID key set / private VAPID key set: all
\* three, or all but one.
GateConfigs ==
  {c \in [firebase : BOOLEAN, publicKey : BOOLEAN, privateKey : BOOLEAN] :
     Cardinality({f \in {"firebase", "publicKey", "privateKey"} : ~c[f]}) <= 1}

\* Position of a user in the collection's key order.
RECURSIVE IndexOf(_, _)
IndexOf(u, k) == IF UserOrder[k] = u THEN k ELSE IndexOf(u, k + 1)

\* The geohash cell of a stored record; cell b is what range query b covers.
CellOf(u) == ((IndexOf(u, 1) - 1) % NumRanges) + 1

\* The user documents a store can hold (lastLocation.lat, lastLocation.lng,
\* the distance in metres geofire's distanceBetween gives to the request's
\* center, whether a pushSubscription is stored, and whether
\* lastLocation.geohash is exactly the end key of its cell's range).
Profiles ==
  { [lat |-> "19.076", lng |-> "19.076", dist |-> radiusInM, pushSubscription |-> TRUE,
     atRangeEnd |-> FALSE],
    [lat |-> "19.076", lng |-> "19.076", dist |-> radiusInM + 1, pushSubscription |-> TRUE,
     atRangeEnd |-> FALSE],
    [lat |-> "19.076", lng |-> "19.076", dist |-> radiusInM - 1, pushSubscription |-> FALSE,
     atRangeEnd |-> FALSE],
    [lat |-> "0", lng |-> "19.076", dist |-> radiusInM - 1, pushSubscription |-> TRUE,
     atRangeEnd |-> FALSE],
    [lat |-> "undefined", lng |-> "undefined", dist |-> 0, pushSubscription |-> TRUE,
     atRangeEnd |-> FALSE],
    [lat |-> "19.076", lng |-> "19.076", dist |-> radiusInM - 1, pushSubscription |-> TRUE,
     atRangeEnd |-> TRUE] }

\* The documents of the runs that are checked for termination: in reach and
\* inside their range, with or without subscription.
FairProfiles ==
  {p \in Profiles : p.lat = "19.076" /\ p.dist <= radiusInM /\ ~p.atRangeEnd}

\* The contents of the 'users' collection: documents in reach and inside
\* their range, and at most one document of another kind.
Stores ==
  {s \in [Users -> Profiles] : Cardinality({u \in Users : s[u] \notin FairProfiles}) <= 1}

VARIABLES
  firebaseInitialized,  \* module-level flag set by the Admin SDK initialisation
  publicVapidKey,       \* NEXT_PUBLIC_VAPID_PUBLIC_KEY is set
  privateVapidKey,      \* VAPID_PRIVATE_KEY is set
  users,                \* the 'users' collection: id -> document
  req,                  \* per request: the request body
  pc,                   \* per request: where the handler is suspended
  queries,              \* per request, range query b: "none", "pending", "ok", "failed"
  matchingDocs,         \* per request: the filtered nearby documents (by id), in push order
  pushes,               \* per request and matchingDocs entry: "skipped", "pending", "sent", "failed"
  nearbyUsersNotified,  \* per request: the handler's counter
  firstSettled,         \* per request: the matchingDocs entry whose send settled first (0: none yet)
  apiKeys,              \* per request: what the handler read from process.env
  contactIdx,           \* per request: the contact the loop is at
  emails,               \* per request and contact: "none", "pending", "sent", "failed"
  calls,                \* per request and contact: "none", "pending", "sent", "failed"
  attempts,             \* per request: log of gateway calls made, <<channel, target>>
  res,                  \* per request: responses written
  saveReq,              \* save-subscription: the request body
  savePc,               \* save-subscription: where the handler is suspended
  saveRes,              \* save-subscription: statuses of the responses written
  usersAtSave,          \* the 'users' collection when the save-subscription request arrived
  storeWrites,          \* number of userDocRef.set calls that fulfilled
  cacheStore,           \* service worker: CacheStorage, cache name -> set of cached URLs
  navUrl,               \* service worker: URL of the navigation request of the fetch event
  navPc,                \* service worker: where the fetch handler is suspended
  networkResponse,      \* service worker: "pending", "ok", "notOk" (fulfilled, !ok), "failed"
  navPut,               \* service worker: cache.put of the fetch handler: "none", "pending", "stored", "failed"
  navMatched,           \* service worker: the URLs the fetch handler called cache.match for
  navReturned,          \* service worker: what the fetch handler's promise settled with
  actPc,                \* service worker: where the activate handler is
  deletes               \* service worker: caches.delete per key: "pending", "ok", "failed"

vars == <<firebaseInitialized, publicVapidKey, privateVapidKey, users, req, pc,
          queries, matchingDocs, pushes, nearbyUsersNotified, firstSettled, apiKeys,
          contactIdx, emails, calls, attempts, res,
          saveReq, savePc, saveRes, usersAtSave, storeWrites,
          cacheStore, navUrl, navPc, networkResponse, navPut, navMatched, navReturned,
          actPc, deletes>>

config == <<firebaseInitialized, publicVapidKey, privateVapidKey, users, req>>
pushVars == <<matchingDocs, pushes, nearbyUsersNotified, firstSettled>>
contactVars == <<apiKeys, contactIdx, emails, calls>>
sosVars == <<req, pc, queries, pushVars, contactVars, attempts, res>>
saveVars == <<saveReq, savePc, saveRes, usersAtSave, storeWrites>>
navVars == <<navUrl, navPc, networkResponse, navPut, navMatched, navReturned>>
swVars == <<cacheStore, navVars, actPc, deletes>>

\* What the trigger-sos handler does not touch.
elsewhere == <<saveVars, swVars>>

Ranges == 1 .. NumRanges
Contacts == 1 .. MaxContacts

\* The requests being handled.
Rs == DOMAIN pc

\* The handlers' state when the requests of R have arrived.
Arrived(R) ==
  /\ pc = [r \in R |-> "received"]
  /\ queries = [r \in R |-> [b \in Ranges |-> "none"]]
  /\ matchingDocs = [r \in R |-> <<>>]
  /\ pushes = [r \in R |-> <<>>]
  /\ nearbyUsersNotified = [r \in R |-> 0]
  /\ firstSettled = [r \in R |-> 0]
  /\ apiKeys = [r \in R |-> [read |-> FALSE, twilio |-> FALSE, resend |-> FALSE]]
  /\ contactIdx = [r \in R |-> 0]
  /\ emails = [r \in R |-> [i \in Contacts |-> "none"]]
  /\ calls = [r \in R |-> [i \in Contacts |-> "none"]]
  /\ attempts = [r \in R |-> <<>>]
  /\ res = [r \in R |-> <<>>]

\* No save-subscription request.
SaveIdle ==
  /\ saveReq = [validSub |-> FALSE, userId |-> ""]
  /\ savePc = "idle"
  /\ saveRes = <<>>
  /\ usersAtSave = users
  /\ storeWrites = 0

\* No service worker event.
SwIdle ==
  /\ cacheStore = [n \in {} |-> {}]
  /\ navUrl = "/"
  /\ navPc = "idle"
  /\ networkResponse = "pending"
  /\ navPut = "none"
  /\ navMatched = {}
  /\ navReturned = <<"none">>
  /\ actPc = "idle"
  /\ deletes = [n \in {} |-> "pending"]

Gate(c) ==
  /\ firebaseInitialized = c.firebase
  /\ publicVapidKey = c.publicKey
  /\ privateVapidKey = c.privateKey

Init ==
  /\ \E c \in GateConfigs : Gate(c)
  /\ users \in Stores
  /\ req \in [{1} -> [valid : BOOLEAN, uid : Uids, nContacts : 0 .. MaxContacts]]
  /\ Arrived({1})
  /\ SaveIdle
  /\ SwIdle

\* One request, over the stores of FairProfiles.
FairInit ==
  /\ \E c \in GateConfigs : Gate(c)
  /\ users \in [Users -> FairProfiles]
  /\ req \in [{1} -> [valid : BOOLEAN, uid : Uids, nContacts : 0 .. MaxContacts]]
  /\ Arrived({1})
  /\ SaveIdle
  /\ SwIdle

\* Two requests in flight at once, from a stored user and from one without
\* a document, over the store of subscribed documents in reach.
TwoInit ==
  /\ \E c \in GateConfigs : Gate(c)
  /\ users \in [Users -> {p \in FairProfiles : p.pushSubscription}]
  /\ req \in [{1, 2} -> [valid : BOOLEAN, uid : Uids, nContacts : 0 .. 1]]
  /\ req[1].valid /\ req[1].uid = "u1"
  /\ req[2].uid = "u0"
  /\ Arrived({1, 2})
  /\ SaveIdle
  /\ SwIdle

\* ------------------------------------------------------- pure helpers

\* geohashQueryBounds(center, radiusInM): one [start, end] pair per cell; the
\* end key of a pair is the start key of the next.
bounds == [b \in Ranges |-> <<2 * b - 2, 2 * b>>]

\* lastLocation.geohash of a stored document, as a key of the index.
GeohashOf(u) == IF users[u].atRangeEnd THEN 2 * CellOf(u) ELSE 2 * CellOf(u) - 1

\* q.get() for bound b: the documents whose geohash lies in [start, end]
\* (startAt and endAt are both inclusive), in key order.
SnapDocs(b) ==
  SelectSeq(UserOrder, LAMBDA u : bounds[b][1] <= GeohashOf(u) /\ GeohashOf(u) <= bounds[b][2])

\* The snapshots in the order of the bounds, flattened as the two nested
\* for-loops visit them.
RECURSIVE DocsFrom(_)
DocsFrom(b) == IF b > NumRanges THEN <<>> ELSE SnapDocs(b) \o DocsFrom(b + 1)

\* doc.id === user.uid
IsTriggeringUser_Never(id, uid) == FALSE
IsTriggeringUser(id, uid) == id = uid

\* JavaScript truthiness of a coordinate value.
Truthy(v) == v \notin {"undefined", "0"}

\* if (lat && lng)
HasLatLng_NoCheck(d) == TRUE
HasLatLng(d) == Truthy(d.lat) /\ Truthy(d.lng)

\* distanceBetween validates its arguments and throws on a non-number.
DistanceThrows(d) == d.lat = "undefined" \/ d.lng = "undefined"

\* distanceInM <= radiusInM
WithinRadius_Strict(distanceInM) == distanceInM < radiusInM
WithinRadius(distanceInM) == distanceInM <= radiusInM

\* The filter loop throws when a document reaches distanceBetween without
\* numeric coordinates.
FilterThrows(docs, uid) ==
  \E k \in DOMAIN docs :
    /\ ~IsTriggeringUser(docs[k], uid)
    /\ HasLatLng(users[docs[k]])
    /\ DistanceThrows(users[docs[k]])

\* The documents the filter loop pushes onto matchingDocs.
FilterDocs(docs, uid) ==
  SelectSeq(docs, LAMBDA id :
    /\ ~IsTriggeringUser(id, uid)
    /\ HasLatLng(users[id])
    /\ WithinRadius(users[id].dist))

\* if (nearbyUser.pushSubscription)
HasSubscription_Always(d) == TRUE
HasSubscription(d) == d.pushSubscription

\* The map over matchingDocs: a send is started for a subscribed document,
\* Promise.resolve() stands for the others.
StartPushes(md) ==
  [k \in DOMAIN md |-> IF HasSubscription(users[md[k]]) THEN "pending" ELSE "skipped"]

PushAttempts(md) ==
  LET sel == SelectSeq(md, LAMBDA id : HasSubscription(users[id]))
  IN [k \in DOMAIN sel |-> <<"push", sel[k]>>]

\* The second sentence of responseMessage: "skipped due to missing server
\* configuration" when a key is missing, "process initiated" otherwise.
SaysSkipped_Never(areApiKeysMissing) == FALSE
SaysSkipped(areApiKeysMissing) == areApiKeysMissing

\* The response body written at the end of the handler: the status, and what
\* responseMessage says (the number of nearby users notified, and whether the
\* contact notifications were skipped for missing configuration).
SuccessResponse_KeysMissing500(n, missing) ==
  [status |-> IF missing THEN 500 ELSE 200, notified |-> n, skipped |-> SaysSkipped(missing)]
SuccessResponse(n, missing) ==
  [status |-> 200, notified |-> n, skipped |-> SaysSkipped(missing)]
ErrorResponse == [status |-> 400, notified |-> 0, skipped |-> FALSE]

\* ------------------------------------------------------------ actions

AllSettled(f) == \A k \in DOMAIN f : f[k] # "pending"

Set(f, r, v) == [f EXCEPT ![r] = v]

\* The emergency-contact part of the handler of request r, entered with the
\* final value n of nearbyUsersNotified: read the gateway keys from
\* process.env, then either answer at once (keys missing, or no contact) or
\* start the first email.
NotifyContacts(r, n) ==
  \E tw \in BOOLEAN, rs \in BOOLEAN :
    LET areApiKeysMissing == ~tw \/ ~rs IN
    /\ apiKeys' = Set(apiKeys, r, [read |-> TRUE, twilio |-> tw, resend |-> rs])
    /\ IF areApiKeysMissing \/ req[r].nContacts = 0
       THEN /\ pc' = Set(pc, r, "done")
            /\ res' = Set(res, r, Append(res[r], SuccessResponse(n, areApiKeysMissing)))
            /\ UNCHANGED <<contactIdx, emails, calls, attempts>>
       ELSE /\ pc' = Set(pc, r, "awaitEmail")
            /\ contactIdx' = Set(contactIdx, r, 1)
            /\ emails' = [emails EXCEPT ![r][1] = "pending"]
            /\ attempts' = Set(attempts, r, Append(attempts[r], <<"email", 1>>))
            /\ UNCHANGED <<calls, res>>

\* Validation fails: 400 and return.
RejectInvalid_NoReturn(r) ==
  /\ pc[r] = "received"
  /\ ~req[r].valid
  /\ res' = Set(res, r, Append(res[r], ErrorResponse))
  /\ queries' = Set(queries, r, [b \in Ranges |-> "pending"])
  /\ pc' = Set(pc, r, "awaitQueries")
  /\ UNCHANGED <<config, pushVars, contactVars, attempts>>

RejectInvalid(r) ==
  /\ pc[r] = "received"
  /\ ~req[r].valid
  /\ pc' = Set(pc, r, "done")
  /\ res' = Set(res, r, Append(res[r], ErrorResponse))
  /\ UNCHANGED <<config, queries, pushVars, contactVars, attempts>>

\* The gate of the nearby-users part of the handler.
PushEnabled_FirebaseOnly == firebaseInitialized
PushEnabled == firebaseInitialized /\ publicVapidKey /\ privateVapidKey

\* Valid request, push gate closed: straight to the contacts.
TriggerNoPush(r) ==
  /\ pc[r] = "received"
  /\ req[r].valid
  /\ ~PushEnabled
  /\ NotifyContacts(r, nearbyUsersNotified[r])
  /\ UNCHANGED <<config, queries, pushVars>>

\* Valid request, push gate open: one range query per bound is issued and the
\* handler awaits Promise.all of them.
TriggerQueries(r) ==
  /\ pc[r] = "received"
  /\ req[r].valid
  /\ PushEnabled
  /\ queries' = Set(queries, r, [b \in Ranges |-> "pending"])
  /\ pc' = Set(pc, r, "awaitQueries")
  /\ UNCHANGED <<config, pushVars, contactVars, attempts, res>>

\* A range query rejects.  Promise.all rejects with it, the handler's catch
\* logs and the handler goes on to the contacts.  A rejection that arrives
\* after the handler has moved on changes nothing else.
QueryFail_Uncaught(r, b) ==
  /\ queries[r][b] = "pending"
  /\ queries' = [queries EXCEPT ![r][b] = "failed"]
  /\ IF pc[r] = "awaitQueries"
     THEN pc' = Set(pc, r, "done") /\ UNCHANGED <<contactVars, attempts, res>>
     ELSE UNCHANGED <<pc, contactVars, attempts, res>>
  /\ UNCHANGED <<config, pushVars>>

QueryFail(r, b) ==
  /\ queries[r][b] = "pending"
  /\ queries' = [queries EXCEPT ![r][b] = "failed"]
  /\ IF pc[r] = "awaitQueries"
     THEN NotifyContacts(r, nearbyUsersNotified[r])
     ELSE UNCHANGED <<pc, contactVars, attempts, res>>
  /\ UNCHANGED <<config, pushVars>>

\* A range query fulfils.  When it is the last one, Promise.all fulfils: the
\* filter loop runs, the pushes are started, and the handler awaits them (or
\* goes on at once when there is nothing to await).
QueryOk(r, b) ==
  /\ queries[r][b] = "pending"
  /\ queries' = [queries EXCEPT ![r][b] = "ok"]
  /\ IF pc[r] = "awaitQueries" /\ \A c \in Ranges : queries'[r][c] = "ok"
     THEN IF FilterThrows(DocsFrom(1), req[r].uid)
          THEN /\ NotifyContacts(r, nearbyUsersNotified[r])
               /\ UNCHANGED pushVars
          ELSE LET md == FilterDocs(DocsFrom(1), req[r].uid) IN
               /\ matchingDocs' = Set(matchingDocs, r, md)
               /\ pushes' = Set(pushes, r, StartPushes(md))
               /\ UNCHANGED <<nearbyUsersNotified, firstSettled>>
               /\ IF AllSettled(StartPushes(md))
                  THEN NotifyContacts(r, nearbyUsersNotified[r])
                  ELSE /\ pc' = Set(pc, r, "awaitPushes")
                       /\ attempts' = Set(attempts, r, attempts[r] \o PushAttempts(md))
                       /\ UNCHANGED <<contactVars, res>>
     ELSE UNCHANGED <<pc, pushVars, contactVars, attempts, res>>
  /\ UNCHANGED config

\* nearbyUsersNotified++ in a .then callback: the callback runs to completion
\* and reads the value the previous one wrote.
Increment_Stale(n) == 1
Increment(n) == n + 1

\* The counter after a push send settled.
CountAfter_Always(n, outcome) == Increment(n)
CountAfter(n, outcome) == IF outcome = "sent" THEN Increment(n) ELSE n

\* The handlers' counters after a push send of request r settled: the
\* counter is a local of the handler invocation.
CountersAfter_Shared(r, outcome) ==
  [q \in Rs |-> CountAfter(nearbyUsersNotified[q], outcome)]
CountersAfter(r, outcome) ==
  Set(nearbyUsersNotified, r, CountAfter(nearbyUsersNotified[r], outcome))

\* A push send settles: .then increments the counter, .catch logs.  When it
\* is the last one, Promise.all fulfils and the handler goes on.
PushSettled_Prune(r, k, outcome) ==
  /\ k \in DOMAIN pushes[r]
  /\ pushes[r][k] = "pending"
  /\ pushes' = [pushes EXCEPT ![r][k] = outcome]
  /\ nearbyUsersNotified' = CountersAfter(r, outcome)
  /\ firstSettled' = IF firstSettled[r] = 0 THEN Set(firstSettled, r, k) ELSE firstSettled
  /\ users' = IF outcome = "failed"
              THEN [users EXCEPT ![matchingDocs[r][k]].pushSubscription = FALSE]
              ELSE users
  /\ IF pc[r] = "awaitPushes" /\ AllSettled(pushes'[r])
     THEN NotifyContacts(r, nearbyUsersNotified'[r])
     ELSE UNCHANGED <<pc, contactVars, attempts, res>>
  /\ UNCHANGED <<firebaseInitialized, publicVapidKey, privateVapidKey, req, queries,
                 matchingDocs>>

PushSettled(r, k, outcome) ==
  /\ k \in DOMAIN pushes[r]
  /\ pushes[r][k] = "pending"
  /\ pushes' = [pushes EXCEPT ![r][k] = outcome]
  /\ nearbyUsersNotified' = CountersAfter(r, outcome)
  /\ firstSettled' = IF firstSettled[r] = 0 THEN Set(firstSettled, r, k) ELSE firstSettled
  /\ IF pc[r] = "awaitPushes" /\ AllSettled(pushes'[r])
     THEN NotifyContacts(r, nearbyUsersNotified'[r])
     ELSE UNCHANGED <<pc, contactVars, attempts, res>>
  /\ UNCHANGED <<config, queries, matchingDocs>>

PushOk(r, k) == PushSettled(r, k, "sent")
PushFail(r, k) == PushSettled(r, k, "failed")

\* The email send for the current contact settles (a rejection is caught and
\* logged); the call for the same contact is started.
EmailSettled_OneTry(r, outcome) ==
  /\ pc[r] = "awaitEmail"
  /\ IF outcome = "sent"
     THEN /\ emails' = [emails EXCEPT ![r][contactIdx[r]] = outcome]
          /\ calls' = [calls EXCEPT ![r][contactIdx[r]] = "pending"]
          /\ attempts' = Set(attempts, r, Append(attempts[r], <<"call", contactIdx[r]>>))
          /\ pc' = Set(pc, r, "awaitCall")
          /\ UNCHANGED <<contactIdx, res>>
     ELSE IF contactIdx[r] < req[r].nContacts
          THEN /\ contactIdx' = Set(contactIdx, r, contactIdx[r] + 1)
               /\ emails' = [emails EXCEPT ![r][contactIdx[r]] = outcome,
                                           ![r][contactIdx[r] + 1] = "pending"]
               /\ attempts' = Set(attempts, r,
                                  Append(attempts[r], <<"email", contactIdx[r] + 1>>))
               /\ UNCHANGED <<pc, calls, res>>
          ELSE /\ emails' = [emails EXCEPT ![r][contactIdx[r]] = outcome]
               /\ pc' = Set(pc, r, "done")
               /\ res' = Set(res, r, Append(res[r],
                                            SuccessResponse(nearbyUsersNotified[r], FALSE)))
               /\ UNCHANGED <<contactIdx, calls, attempts>>
  /\ UNCHANGED <<config, queries, pushVars, apiKeys>>

EmailSettled(r, outcome) ==
  /\ pc[r] = "awaitEmail"
  /\ emails' = [emails EXCEPT ![r][contactIdx[r]] = outcome]
  /\ calls' = [calls EXCEPT ![r][contactIdx[r]] = "pending"]
  /\ attempts' = Set(attempts, r, Append(attempts[r], <<"call", contactIdx[r]>>))
  /\ pc' = Set(pc, r, "awaitCall")
  /\ UNCHANGED <<config, queries, pushVars, apiKeys, contactIdx, res>>

EmailOk(r) == EmailSettled(r, "sent")
EmailFail(r) == EmailSettled(r, "failed")

\* The call creation for the current contact settles (a rejection is caught
\* and logged); the loop goes to the next contact, or the response is sent.
CallSettled(r, outcome) ==
  /\ pc[r] = "awaitCall"
  /\ calls' = [calls EXCEPT ![r][contactIdx[r]] = outcome]
  /\ IF contactIdx[r] < req[r].nContacts
     THEN /\ contactIdx' = Set(contactIdx, r, contactIdx[r] + 1)
          /\ emails' = [emails EXCEPT ![r][contactIdx[r] + 1] = "pending"]
          /\ attempts' = Set(attempts, r, Append(attempts[r], <<"email", contactIdx[r] + 1>>))
          /\ pc' = Set(pc, r, "awaitEmail")
          /\ UNCHANGED res
     ELSE /\ pc' = Set(pc, r, "done")
          /\ res' = Set(res, r, Append(res[r], SuccessResponse(nearbyUsersNotified[r], FALSE)))
          /\ UNCHANGED <<contactIdx, emails, attempts>>
  /\ UNCHANGED <<config, queries, pushVars, apiKeys>>

CallOk(r) == CallSettled(r, "sent")
CallFail(r) == CallSettled(r, "failed")

Next ==
  \/ \E r \in Rs : RejectInvalid(r) /\ UNCHANGED elsewhere
  \/ \E r \in Rs : TriggerNoPush(r) /\ UNCHANGED elsewhere
  \/ \E r \in Rs : TriggerQueries(r) /\ UNCHANGED elsewhere
  \/ \E r \in Rs, b \in Ranges : QueryOk(r, b) /\ UNCHANGED elsewhere
  \/ \E r \in Rs, b \in Ranges : QueryFail(r, b) /\ UNCHANGED elsewhere
  \/ \E r \in Rs : \E k \in DOMAIN pushes[r] : PushOk(r, k) /\ UNCHANGED elsewhere
  \/ \E r \in Rs : \E k \in DOMAIN pushes[r] : PushFail(r, k) /\ UNCHANGED elsewhere
  \/ \E r \in Rs : EmailOk(r) /\ UNCHANGED elsewhere
  \/ \E r \in Rs : EmailFail(r) /\ UNCHANGED elsewhere
  \/ \E r \in Rs : CallOk(r) /\ UNCHANGED elsewhere
  \/ \E r \in Rs : CallFail(r) /\ UNCHANGED elsewhere

Spec == Init /\ [][Next]_vars

\* Every remote call eventually settles, and the handler runs when it can.
FairSpec == FairInit /\ [][Next]_vars /\ WF_vars(Next)

\* Two requests handled at once.
TwoSpec == TwoInit /\ [][Next]_vars

TypeOK ==
  \A r \in Rs :
    /\ pc[r] \in {"received", "awaitQueries", "awaitPushes", "awaitEmail", "awaitCall", "done"}
    /\ queries[r] \in [Ranges -> {"none", "pending", "ok", "failed"}]
    /\ Len(pushes[r]) = Len(matchingDocs[r])
    /\ Len(matchingDocs[r]) <= 2 * Cardinality(Users)
    /\ nearbyUsersNotified[r] \in 0 .. Len(pushes[r])
    /\ contactIdx[r] \in 0 .. MaxContacts
    /\ Len(res[r]) <= 1

\* --------------------------------------------------------- properties

Range(f) == {f[k] : k \in DOMAIN f}
Responded(r) == Len(res[r]) = 1
Attempted(r, ch, to) == \E k \in DOMAIN attempts[r] : attempts[r][k] = <<ch, to>>
NumAttempts(r, ch, to) ==
  Cardinality({k \in DOMAIN attempts[r] : attempts[r][k] = <<ch, to>>})

\* Promise.all of the range queries fulfilled and the filter loop completed.
FilterRan(r) == \A b \in Ranges : queries[r][b] = "ok"

\* The entries of matchingDocs that carry a pushSubscription.
Subscribed(r) ==
  {k \in DOMAIN matchingDocs[r] : users[matchingDocs[r][k]].pushSubscription}
PushesWith(r, outcome) == {k \in DOMAIN pushes[r] : pushes[r][k] = outcome}

\* C1: push isolation.  Once the nearby documents are resolved, a push send
\* has been attempted for every one of the N that has a pushSubscription,
\* whichever of them failed, and the number of nearby users the response
\* reports is N minus the number of failed sends.
C1_PushIsolation ==
  \A r \in Rs :
    FilterRan(r) =>
      /\ \A k \in Subscribed(r) :
           /\ pushes[r][k] \in {"pending", "sent", "failed"}
           /\ Attempted(r, "push", matchingDocs[r][k])
      /\ \A o \in Range(res[r]) :
           o.notified = Cardinality(Subscribed(r)) - Cardinality(PushesWith(r, "failed"))

C1_Witness ==
  \E r \in Rs :
    /\ Responded(r)
    /\ Cardinality(Subscribed(r)) = 2
    /\ Cardinality(PushesWith(r, "failed")) = 1
    /\ res[r][1].notified = 1

BothConfigured(r) == apiKeys[r].read /\ apiKeys[r].twilio /\ apiKeys[r].resend
Settled(x) == x \in {"sent", "failed"}

\* C2: contact isolation.  With the email and call gateways configured, as
\* soon as the email for a contact has settled, with either outcome, the
\* call for that contact has been started; as soon as that call has settled
\* the email for the next contact has been started; and when the response
\* is sent exactly one email and one call have been attempted for every
\* contact of the request.
C2_ContactIsolation ==
  \A r \in Rs :
    BothConfigured(r) =>
      /\ \A i \in 1 .. req[r].nContacts :
           /\ Settled(emails[r][i]) => NumAttempts(r, "call", i) = 1
           /\ (Settled(calls[r][i]) /\ i < req[r].nContacts) =>
                NumAttempts(r, "email", i + 1) = 1
      /\ Responded(r) =>
           \A i \in 1 .. req[r].nContacts :
             /\ NumAttempts(r, "email", i) = 1 /\ Settled(emails[r][i])
             /\ NumAttempts(r, "call", i) = 1 /\ Settled(calls[r][i])

C2_Witness ==
  \E r \in Rs :
    /\ Responded(r)
    /\ BothConfigured(r)
    /\ req[r].nContacts = 2
    /\ emails[r][1] = "failed" /\ calls[r][1] = "failed"
    /\ emails[r][2] = "failed" /\ calls[r][2] = "sent"
    /\ NumAttempts(r, "call", 1) = 1 /\ NumAttempts(r, "email", 2) = 1

\* A stored document passes the handler's filter for request r.
Qualifies(r, u) ==
  /\ u # req[r].uid
  /\ users[u].lat \notin {"undefined", "0"}
  /\ users[u].lng \notin {"undefined", "0"}
  /\ users[u].dist <= radiusInM

\* C3: range-query failure isolation.  When a range query failed and another
\* one succeeded, every document the successful one returned that passes the
\* filter and has a pushSubscription has been sent a push by the time the
\* response is written.
C3_RangeQueryIsolation ==
  \A r \in Rs : \A b \in Ranges, c \in Ranges :
    (Responded(r) /\ queries[r][b] = "failed" /\ queries[r][c] = "ok") =>
      \A u \in Range(SnapDocs(c)) :
        (Qualifies(r, u) /\ users[u].pushSubscription) => Attempted(r, "push", u)

\* C4: a request that passes validation is answered, exactly once, with
\* status 200, whatever fails on the way; a request is never answered twice.
C4_AlwaysOneSuccess ==
  /\ [](Len(res[1]) <= 1 /\ (req[1].valid => \A o \in Range(res[1]) : o.status = 200))
  /\ (req[1].valid ~> Responded(1))

C4_Witness ==
  /\ Responded(1)
  /\ res[1][1].status = 200
  /\ \E b \in Ranges : queries[1][b] = "failed"
  /\ req[1].nContacts = 2
  /\ \A i \in 1 .. 2 : emails[1][i] = "failed" /\ calls[1][i] = "failed"

C4_WitnessSkipped ==
  /\ Responded(1)
  /\ res[1][1].status = 200
  /\ res[1][1].skipped
  /\ PushesWith(1, "failed") # {}

\* C5: sub-flow independence under total failure.  When the handler has
\* finished a valid request and every range query failed, it reported 0
\* nearby users and, the gateways being configured, attempted one email and
\* one call for every contact.  When every email and call failed, the
\* reported number of nearby users is the number of push sends that
\* succeeded.
C5_SubFlowIndependence ==
  \A r \in Rs :
    (pc[r] = "done" /\ req[r].valid) =>
      /\ (\A b \in Ranges : queries[r][b] = "failed") =>
           /\ Responded(r)
           /\ res[r][1].notified = 0
           /\ apiKeys[r].read
           /\ BothConfigured(r) =>
                \A i \in 1 .. req[r].nContacts :
                  NumAttempts(r, "email", i) = 1 /\ NumAttempts(r, "call", i) = 1
      /\ (BothConfigured(r) /\ \A i \in 1 .. req[r].nContacts :
                                 emails[r][i] = "failed" /\ calls[r][i] = "failed") =>
           /\ Responded(r)
           /\ res[r][1].notified = Cardinality(PushesWith(r, "sent"))

C5_Witness ==
  \E r \in Rs :
    /\ pc[r] = "done"
    /\ \A b \in Ranges : queries[r][b] = "failed"
    /\ BothConfigured(r)
    /\ req[r].nContacts = 2
    /\ \A i \in 1 .. 2 : NumAttempts(r, "email", i) = 1 /\ NumAttempts(r, "call", i) = 1
    /\ res[r][1].notified = 0

C5_WitnessConverse ==
  \E r \in Rs :
    /\ pc[r] = "done"
    /\ BothConfigured(r)
    /\ req[r].nContacts = 2
    /\ \A i \in 1 .. 2 : emails[r][i] = "failed" /\ calls[r][i] = "failed"
    /\ Cardinality(PushesWith(r, "sent")) = 2
    /\ res[r][1].notified = 2

\* C6: exclusion.  The document of the triggering user is never in the
\* nearby set and no push send is ever made to it.
C6_Exclusion ==
  \A r \in Rs :
    /\ \A k \in DOMAIN matchingDocs[r] : matchingDocs[r][k] # req[r].uid
    /\ ~Attempted(r, "push", req[r].uid)

C6_Witness ==
  \E r \in Rs :
    /\ FilterRan(r)
    /\ req[r].uid \in Users
    /\ users[req[r].uid].dist <= radiusInM
    /\ users[req[r].uid].lat = "19.076" /\ users[req[r].uid].lng = "19.076"
    /\ users[req[r].uid].pushSubscription
    /\ \E u \in Users : Attempted(r, "push", u)
    /\ Responded(r)

\* C7: distance post-filter.  No document farther than radiusInM from the
\* center is in the nearby set or sent a push; of the documents whose
\* distance the filter computes, the one at radiusInM + 1 is left out and
\* the ones at radiusInM - 1 and at radiusInM are kept.
C7_DistanceFilter ==
  \A r \in Rs :
    /\ \A k \in DOMAIN matchingDocs[r] : users[matchingDocs[r][k]].dist <= radiusInM
    /\ \A u \in Users : Attempted(r, "push", u) => users[u].dist <= radiusInM
    /\ FilterRan(r) =>
         \A u \in Users \ {req[r].uid} :
           (users[u].lat \notin {"undefined", "0"} /\ users[u].lng \notin {"undefined", "0"}) =>
             /\ users[u].dist = radiusInM + 1 => u \notin Range(matchingDocs[r])
             /\ users[u].dist = radiusInM - 1 => u \in Range(matchingDocs[r])
             /\ users[u].dist = radiusInM => u \in Range(matchingDocs[r])

C7_Witness ==
  \E r \in Rs :
    /\ FilterRan(r)
    /\ \E u \in Users, v \in Users, w \in Users :
         /\ users[u].dist = radiusInM + 1 /\ u # req[r].uid
         /\ u \notin Range(matchingDocs[r])
         /\ users[v].dist = radiusInM /\ v \in Range(matchingDocs[r])
         /\ users[w].dist = radiusInM - 1 /\ w \in Range(matchingDocs[r])

\* C8: completeness of the post-filter.  Every document returned by the
\* range queries that is not the triggering user's, has a lat and a lng
\* (0 included) and lies within radiusInM is in the nearby set.
C8_FilterComplete ==
  \A r \in Rs :
    FilterRan(r) =>
      \A u \in Users \ {req[r].uid} :
        (users[u].lat # "undefined" /\ users[u].lng # "undefined"
           /\ users[u].dist <= radiusInM) => u \in Range(matchingDocs[r])

MissingLocation == {u \in Users : users[u].lat = "undefined" \/ users[u].lng = "undefined"}

\* C9: a document without location fields is dropped silently.  When the
\* range queries returned such a document, it is not in the nearby set and
\* gets no push, and the filter still went through all other documents:
\* those that qualify are in the nearby set and, if subscribed, were sent a
\* push.
C9_MissingLocationDropped ==
  \A r \in Rs :
    (FilterRan(r) /\ MissingLocation # {}) =>
      /\ \A u \in MissingLocation :
           u \notin Range(matchingDocs[r]) /\ ~Attempted(r, "push", u)
      /\ \A u \in Users \ MissingLocation :
           Qualifies(r, u) =>
             /\ u \in Range(matchingDocs[r])
             /\ users[u].pushSubscription => Attempted(r, "push", u)

C9_Witness ==
  \E r \in Rs :
    /\ FilterRan(r)
    /\ \E m \in MissingLocation, u \in Users :
         /\ m # req[r].uid
         /\ CellOf(m) = CellOf(u)
         /\ IndexOf(m, 1) < IndexOf(u, 1)
         /\ Qualifies(r, u)
         /\ Attempted(r, "push", u)

\* C10: a nearby document without pushSubscription is skipped.  No push send
\* is made for it, it is neither a success nor a failure, the reported count
\* is the number of sends that succeeded, and the subscribed documents are
\* all attempted.
C10_NoSubscriptionSkipped ==
  \A r \in Rs :
    FilterRan(r) =>
      /\ \A k \in DOMAIN matchingDocs[r] :
           ~users[matchingDocs[r][k]].pushSubscription =>
             pushes[r][k] = "skipped" /\ ~Attempted(r, "push", matchingDocs[r][k])
      /\ \A k \in Subscribed(r) : Attempted(r, "push", matchingDocs[r][k])
      /\ PushesWith(r, "sent") \cup PushesWith(r, "failed") \subseteq Subscribed(r)
      /\ \A o \in Range(res[r]) : o.notified = Cardinality(PushesWith(r, "sent"))

C10_Witness ==
  \E r \in Rs :
    /\ Responded(r)
    /\ \E k \in DOMAIN matchingDocs[r], j \in DOMAIN matchingDocs[r] :
         /\ ~users[matchingDocs[r][k]].pushSubscription
         /\ pushes[r][k] = "skipped"
         /\ k < j
         /\ pushes[r][j] = "sent"
    /\ res[r][1].notified = 1

NoAttempts(r, ch) == \A i \in Contacts : ~Attempted(r, ch, i)

\* C11: per-channel configuration skip.  When the response is sent and only
\* the call gateway's keys are missing, one email has been attempted for
\* every contact and no call; when only the email gateway's keys are
\* missing, one call has been attempted for every contact and no email.
C11_PerChannelSkip ==
  \A r \in Rs :
    (Responded(r) /\ apiKeys[r].read) =>
      /\ (apiKeys[r].resend /\ ~apiKeys[r].twilio) =>
           /\ \A i \in 1 .. req[r].nContacts : NumAttempts(r, "email", i) = 1
           /\ NoAttempts(r, "call")
      /\ (apiKeys[r].twilio /\ ~apiKeys[r].resend) =>
           /\ \A i \in 1 .. req[r].nContacts : NumAttempts(r, "call", i) = 1
           /\ NoAttempts(r, "email")

\* C12: configuration error handling.  When a gateway key is missing no
\* email and no call is attempted for any contact, the request is answered
\* with status 200, and the response says that the contact notifications
\* were skipped for missing configuration; a response to a request whose
\* gateways were configured does not say so.
C12_ConfigSkipReported ==
  \A r \in Rs :
    /\ (apiKeys[r].read /\ ~BothConfigured(r)) =>
         /\ NoAttempts(r, "email") /\ NoAttempts(r, "call")
         /\ Responded(r)
         /\ res[r][1].status = 200
         /\ res[r][1].skipped
    /\ (Responded(r) /\ BothConfigured(r)) =>
         res[r][1].status = 200 /\ ~res[r][1].skipped

C12_Witness ==
  \E r \in Rs :
    /\ Responded(r)
    /\ apiKeys[r].read /\ apiKeys[r].resend /\ ~apiKeys[r].twilio
    /\ req[r].nContacts = 2
    /\ NoAttempts(r, "email") /\ NoAttempts(r, "call")
    /\ res[r][1] = [status |-> 200, notified |-> 1, skipped |-> TRUE]

C12_WitnessTried ==
  \E r \in Rs :
    /\ Responded(r)
    /\ BothConfigured(r)
    /\ req[r].nContacts = 2
    /\ \A i \in 1 .. 2 : emails[r][i] = "failed" /\ calls[r][i] = "failed"
    /\ ~res[r][1].skipped

\* C13: at most one attempt per recipient and channel.  Within one request
\* at most one push send is attempted per user id, also for a document that
\* more than one range query returned, and at most one email and one call
\* per contact, whatever their outcomes.
C13_AtMostOneAttempt ==
  \A r \in Rs :
    /\ \A u \in Users : NumAttempts(r, "push", u) <= 1
    /\ \A i \in Contacts : NumAttempts(r, "email", i) <= 1 /\ NumAttempts(r, "call", i) <= 1

Sent(f) == Cardinality({k \in DOMAIN f : f[k] = "sent"})
Failed(f) == Cardinality({k \in DOMAIN f : f[k] = "failed"})

\* C14: outcome aggregation.  The response to a valid request reports the
\* number of push sends, of email sends and of call initiations that
\* succeeded, and carries one failure entry for every attempt that failed.
C14_OutcomeAggregation ==
  \A r \in Rs :
    \A o \in Range(res[r]) :
      o.status = 200 =>
        /\ o.notified = Sent(pushes[r])
        /\ "emailsSent" \in DOMAIN o /\ o.emailsSent = Sent(emails[r])
        /\ "callsMade" \in DOMAIN o /\ o.callsMade = Sent(calls[r])
        /\ "failures" \in DOMAIN o
        /\ Len(o.failures) = Failed(pushes[r]) + Failed(emails[r]) + Failed(calls[r])

\* C15: order-independent aggregation.  In whatever order the push sends of
\* a request settle, the counter always equals the number of sends that have
\* succeeded so far (no increment is lost or made twice), and the response
\* reports the number of sends that succeeded.
C15_OrderIndependentCount ==
  \A r \in Rs :
    /\ nearbyUsersNotified[r] = Sent(pushes[r])
    /\ \A o \in Range(res[r]) :
         o.status = 200 => o.notified = Sent(pushes[r])

\* The send started last settled first, and the count is that of the sends
\* that succeeded.
C15_Witness ==
  \E r \in Rs :
    /\ Responded(r)
    /\ Len(pushes[r]) = 3
    /\ firstSettled[r] = 3
    /\ pushes[r] = <<"sent", "failed", "sent">>
    /\ res[r][1].notified = 2

C15_WitnessInOrder ==
  \E r \in Rs :
    /\ Responded(r)
    /\ firstSettled[r] = 1
    /\ pushes[r] = <<"sent", "failed", "sent">>
    /\ res[r][1].notified = 2

\* What the handler invocation of request r holds.
ReqState(r) ==
  <<pc[r], queries[r], matchingDocs[r], pushes[r], nearbyUsersNotified[r], apiKeys[r],
    contactIdx[r], emails[r], calls[r], attempts[r], res[r]>>

\* C16: cross-request isolation.  With two requests in progress at once, a
\* step of one request (a push, email or call of it settling, or its handler
\* running) changes neither the counter nor the response of the other; each
\* response reports the number of successful push sends of its own request
\* and says "skipped" exactly when its own handler found a key missing.
C16_CrossRequestIsolation ==
  /\ [][\A r \in {1, 2}, q \in {1, 2} :
          (r # q /\ ReqState(q)' # ReqState(q)) => ReqState(r)' = ReqState(r)]_vars
  /\ [](\A r \in {1, 2} :
          \A o \in Range(res[r]) :
            o.status = 200 =>
              /\ o.notified = Sent(pushes[r])
              /\ o.skipped = ~BothConfigured(r))

\* Request 1 has been answered with a count of 0 while request 2, to the
\* same users, has one send fulfilled and is still waiting for others.
C16_Witness ==
  /\ Responded(1)
  /\ Failed(pushes[1]) = 2
  /\ res[1][1].notified = 0
  /\ pc[2] = "awaitPushes"
  /\ Sent(pushes[2]) = 1
  /\ nearbyUsersNotified[2] = 1

C16_WitnessBothAnswered ==
  /\ Responded(1) /\ Responded(2)
  /\ res[1][1] = [status |-> 200, notified |-> 2, skipped |-> TRUE]
  /\ res[2][1] = [status |-> 200, notified |-> 1, skipped |-> FALSE]
  /\ emails[2][1] = "sent" /\ calls[2][1] = "failed"

\* C17: handling a request leaves the store as it was.  No step of the
\* handler creates, changes or deletes a user document; in particular a
\* failed push send does not remove the recipient's pushSubscription.
C17_StoreUnchanged == [][users' = users]_vars

\* The request has been answered, a push send to u failed, and u's document
\* still has its pushSubscription.
C17_Witness ==
  \E r \in Rs :
    /\ Responded(r)
    /\ \E k \in DOMAIN pushes[r] :
         pushes[r][k] = "failed" /\ users[matchingDocs[r][k]].pushSubscription

\* C18: input gate.  A request that fails validation is answered 400 and
\* nothing else happens for it: no range query is issued, no push, email or
\* call is attempted, and the gateway keys are not even read.  Only such a
\* request is answered 400.
C18_InputGate ==
  \A r \in Rs :
    /\ ~req[r].valid =>
         /\ \A b \in Ranges : queries[r][b] = "none"
         /\ attempts[r] = <<>>
         /\ pushes[r] = <<>>
         /\ \A i \in Contacts : emails[r][i] = "none" /\ calls[r][i] = "none"
         /\ ~apiKeys[r].read
         /\ pc[r] \in {"received", "done"}
         /\ res[r] = IF pc[r] = "done" THEN <<ErrorResponse>> ELSE <<>>
    /\ \A o \in Range(res[r]) : o.status = 400 => ~req[r].valid

\* An invalid request has been answered 400 on a server where the push gate
\* is open and the request names two contacts.
C18_Witness ==
  \E r \in Rs :
    /\ ~req[r].valid
    /\ firebaseInitialized /\ publicVapidKey /\ privateVapidKey
    /\ req[r].nContacts = 2
    /\ res[r] = <<ErrorResponse>>
    /\ attempts[r] = <<>>

InFlight(f) == \E k \in DOMAIN f : f[k] = "pending"

\* C20: response after settlement.  When the response to a request has been
\* sent, no range query, push send, email send or call creation of that
\* request is still pending.
C20_ResponseAfterSettlement ==
  \A r \in Rs :
    Responded(r) =>
      /\ ~InFlight(queries[r])
      /\ ~InFlight(pushes[r])
      /\ ~InFlight(emails[r])
      /\ ~InFlight(calls[r])

ContactStarted(r) == \E i \in Contacts : emails[r][i] # "none" \/ calls[r][i] # "none"
NumInFlight(f) == Cardinality({k \in DOMAIN f : f[k] = "pending"})

\* The contact attempts of request r are strictly sequential: the call for a
\* contact starts after the email for it settled, the email for the next
\* contact after that call settled, and at most one of them is pending.
ContactsSequential(r) ==
  /\ \A i \in Contacts : calls[r][i] # "none" => Settled(emails[r][i])
  /\ \A i \in Contacts \ {1} : emails[r][i] # "none" => Settled(calls[r][i - 1])
  /\ NumInFlight(emails[r]) + NumInFlight(calls[r]) <= 1

\* C21: attempt ordering within a request.  No email or call is started
\* while a range query or a push send of the request is still pending, and
\* the contact attempts are strictly sequential in request order.
C21_AttemptOrdering ==
  \A r \in Rs :
    /\ ContactStarted(r) => (~InFlight(queries[r]) /\ ~InFlight(pushes[r]))
    /\ ContactsSequential(r)

\* C22: push gating.  On a server where the store client is not initialised
\* or a VAPID key is missing, a valid request issues no range query and no
\* push send, reports 0 nearby users, and still runs the contact part: the
\* gateway keys are read and, when they are all set, one email and one call
\* are attempted for every contact before the response.
C22_PushGating ==
  \A r \in Rs :
    (req[r].valid /\ ~(firebaseInitialized /\ publicVapidKey /\ privateVapidKey)) =>
      /\ \A b \in Ranges : queries[r][b] = "none"
      /\ pushes[r] = <<>> /\ matchingDocs[r] = <<>>
      /\ \A u \in Users : ~Attempted(r, "push", u)
      /\ \A o \in Range(res[r]) : o.status = 200 /\ o.notified = 0
      /\ pc[r] # "received" => apiKeys[r].read
      /\ (Responded(r) /\ BothConfigured(r)) =>
           \A i \in 1 .. req[r].nContacts :
             NumAttempts(r, "email", i) = 1 /\ NumAttempts(r, "call", i) = 1

\* The store client is initialised, a VAPID key is missing, every stored
\* document is a subscribed one in reach, and the request has been answered
\* after the attempts for both its contacts.
C22_Witness ==
  \E r \in Rs :
    /\ firebaseInitialized /\ ~privateVapidKey
    /\ \A u \in Users : users[u].pushSubscription /\ Qualifies(r, u)
    /\ Responded(r)
    /\ res[r][1].notified = 0
    /\ req[r].nContacts = 2
    /\ \A i \in 1 .. 2 : Settled(emails[r][i]) /\ Settled(calls[r][i])

C22_WitnessNoStore ==
  \E r \in Rs :
    /\ ~firebaseInitialized
    /\ Responded(r)
    /\ res[r][1] = [status |-> 200, notified |-> 0, skipped |-> FALSE]
    /\ req[r].nContacts = 2

\* ----------------------------------------------- /api/save-subscription

\* The userId of a save-subscription body: a stored user, a user without a
\* document, or none.
SaveIds == {"u1", "u0", ""}

\* A save-subscription request has arrived; no trigger-sos request is being
\* handled.
SaveInit ==
  /\ \E c \in GateConfigs : Gate(c)
  /\ users \in [Users -> FairProfiles]
  /\ req = [r \in {} |-> 0]
  /\ Arrived({})
  /\ saveReq \in [validSub : BOOLEAN, userId : SaveIds]
  /\ savePc = "received"
  /\ saveRes = <<>>
  /\ usersAtSave = users
  /\ storeWrites = 0
  /\ SwIdle

\* userDocRef.set({ pushSubscription }, { merge: true }): the document is
\* created when there is none, the other fields of an existing one are kept.
MergeSubscription(store, id) ==
  [u \in DOMAIN store \cup {id} |->
     IF u # id THEN store[u]
     ELSE IF u \in DOMAIN store THEN [store[u] EXCEPT !.pushSubscription = TRUE]
     ELSE [lat |-> "undefined", lng |-> "undefined", dist |-> 0,
           pushSubscription |-> TRUE, atRangeEnd |-> FALSE]]

SaveRespond(status) ==
  /\ saveRes' = Append(saveRes, status)
  /\ savePc' = "done"

\* Firebase is not configured: 503 and return.
SaveUnavailable ==
  /\ savePc = "received"
  /\ ~firebaseInitialized
  /\ SaveRespond(503)
  /\ UNCHANGED <<firebaseInitialized, publicVapidKey, privateVapidKey, users, sosVars,
                 saveReq, usersAtSave, storeWrites>>

\* The subscription does not parse or the userId is missing: 400 and return.
SaveInvalid ==
  /\ savePc = "received"
  /\ firebaseInitialized
  /\ ~saveReq.validSub \/ saveReq.userId = ""
  /\ SaveRespond(400)
  /\ UNCHANGED <<firebaseInitialized, publicVapidKey, privateVapidKey, users, sosVars,
                 saveReq, usersAtSave, storeWrites>>

\* The write is issued and awaited.
SaveSet ==
  /\ savePc = "received"
  /\ firebaseInitialized
  /\ saveReq.validSub /\ saveReq.userId # ""
  /\ savePc' = "awaitSet"
  /\ UNCHANGED <<firebaseInitialized, publicVapidKey, privateVapidKey, users, sosVars,
                 saveReq, saveRes, usersAtSave, storeWrites>>

\* The write fulfils; the confirmation push is sent and awaited when the
\* VAPID keys are set, else the handler answers 201.
SetOk ==
  /\ savePc = "awaitSet"
  /\ users' = MergeSubscription(users, saveReq.userId)
  /\ storeWrites' = storeWrites + 1
  /\ IF publicVapidKey /\ privateVapidKey
     THEN savePc' = "awaitConfirm" /\ UNCHANGED saveRes
     ELSE SaveRespond(201)
  /\ UNCHANGED <<firebaseInitialized, publicVapidKey, privateVapidKey, sosVars,
                 saveReq, usersAtSave>>

\* The write rejects: the catch answers 500.
SetFail ==
  /\ savePc = "awaitSet"
  /\ SaveRespond(500)
  /\ UNCHANGED <<firebaseInitialized, publicVapidKey, privateVapidKey, users, sosVars,
                 saveReq, usersAtSave, storeWrites>>

\* The confirmation push fulfils: 201.
ConfirmOk ==
  /\ savePc = "awaitConfirm"
  /\ SaveRespond(201)
  /\ UNCHANGED <<firebaseInitialized, publicVapidKey, privateVapidKey, users, sosVars,
                 saveReq, usersAtSave, storeWrites>>

\* The confirmation push rejects: the same catch answers 500.
ConfirmFail ==
  /\ savePc = "awaitConfirm"
  /\ SaveRespond(500)
  /\ UNCHANGED <<firebaseInitialized, publicVapidKey, privateVapidKey, users, sosVars,
                 saveReq, usersAtSave, storeWrites>>

SaveNext ==
  \/ SaveUnavailable /\ UNCHANGED swVars
  \/ SaveInvalid /\ UNCHANGED swVars
  \/ SaveSet /\ UNCHANGED swVars
  \/ SetOk /\ UNCHANGED swVars
  \/ SetFail /\ UNCHANGED swVars
  \/ ConfirmOk /\ UNCHANGED swVars
  \/ ConfirmFail /\ UNCHANGED swVars

SaveSpec == SaveInit /\ [][SaveNext]_vars

\* The pushSubscription the store holds for a user id.
StoredSubscription(store, id) == id \in DOMAIN store /\ store[id].pushSubscription

\* C23: save-subscription error atomicity.  Whenever the request has been
\* answered 503, 400 or 500, no write to the store has been made and the
\* store holds for the user what it held when the request arrived; when it
\* has been answered 201, the store holds a pushSubscription for the user.
C23_SaveErrorAtomicity ==
  \A k \in DOMAIN saveRes :
    /\ saveRes[k] \in {503, 400, 500} =>
         /\ storeWrites = 0
         /\ users = usersAtSave
    /\ saveRes[k] = 201 =>
         /\ storeWrites = 1
         /\ StoredSubscription(users, saveReq.userId)

\* ------------------------------------------------- public/sw.js

CACHE_NAME == "digisanchaar-pwa-cache-v1"

\* The caches CacheStorage can hold, and the pages the worker's cache can
\* hold; "/profile" is a page that is not pre-cached.
CacheNames == {CACHE_NAME, "digisanchaar-pwa-cache-v0", "workbox-runtime"}
Pages == {"/", "/dashboard"}
NavUrls == Pages \cup {"/profile"}

CacheStores ==
  {c \in UNION {[N -> SUBSET Pages] : N \in SUBSET CacheNames} :
     \A n \in DOMAIN c : n # CACHE_NAME => c[n] = {"/"}}

notSw == <<firebaseInitialized, publicVapidKey, privateVapidKey, users, sosVars, saveVars>>
actVars == <<actPc, deletes>>

\* The server is left aside: no request to it is in progress.
ServerIdle ==
  /\ Gate([firebase |-> TRUE, publicKey |-> TRUE, privateKey |-> TRUE])
  /\ users = [u \in Users |-> CHOOSE p \in FairProfiles : p.pushSubscription]
  /\ req = [r \in {} |-> 0]
  /\ Arrived({})
  /\ SaveIdle

\* One event has been dispatched to the worker: a fetch event for a
\* navigation request, whose fetch(event.request) is pending, or the
\* activate event, whose caches.keys() is pending.
SwInit ==
  /\ ServerIdle
  /\ cacheStore \in CacheStores
  /\ navUrl \in NavUrls
  /\ networkResponse = "pending"
  /\ navPut = "none"
  /\ navMatched = {}
  /\ navReturned = <<"none">>
  /\ deletes = [n \in {} |-> "pending"]
  /\ \/ navPc = "awaitFetch" /\ actPc = "idle"
     \/ navPc = "idle" /\ actPc = "awaitKeys"

\* caches.open(CACHE_NAME) fulfilled: the cache is created when there is none.
OpenCache(store) ==
  [n \in DOMAIN store \cup {CACHE_NAME} |-> IF n \in DOMAIN store THEN store[n] ELSE {}]

\* The async function of respondWith settles.
NavReturn(value) ==
  /\ navReturned' = value
  /\ navPc' = "done"

\* fetch(event.request) fulfils, with a response that is ok or not.  An ok
\* response is to be cached: caches.open is awaited.  Another is returned.
NetworkFulfilled(ok) ==
  /\ navPc = "awaitFetch"
  /\ networkResponse' = IF ok THEN "ok" ELSE "notOk"
  /\ IF ok
     THEN navPc' = "awaitOpenForPut" /\ UNCHANGED navReturned
     ELSE NavReturn(<<"networkResponse">>)
  /\ UNCHANGED <<notSw, cacheStore, navUrl, navPut, navMatched, actVars>>

\* fetch(event.request) rejects: the catch block awaits caches.open.
NetworkRejected ==
  /\ navPc = "awaitFetch"
  /\ networkResponse' = "failed"
  /\ navPc' = "awaitOpenForMatch"
  /\ UNCHANGED <<notSw, cacheStore, navUrl, navPut, navMatched, navReturned, actVars>>

\* caches.open in the try block fulfils: cache.put is called, not awaited,
\* and the network response is returned.
OpenForPutOk ==
  /\ navPc = "awaitOpenForPut"
  /\ cacheStore' = OpenCache(cacheStore)
  /\ navPut' = "pending"
  /\ NavReturn(<<"networkResponse">>)
  /\ UNCHANGED <<notSw, navUrl, networkResponse, navMatched, actVars>>

\* caches.open in the try block rejects: the same catch block runs.
OpenForPutFail ==
  /\ navPc = "awaitOpenForPut"
  /\ navPc' = "awaitOpenForMatch"
  /\ UNCHANGED <<notSw, cacheStore, navUrl, networkResponse, navPut, navMatched,
                 navReturned, actVars>>

\* caches.open in the catch block fulfils: cache.match(event.request) is
\* called and awaited.
OpenForMatchOk ==
  /\ navPc = "awaitOpenForMatch"
  /\ cacheStore' = OpenCache(cacheStore)
  /\ navMatched' = navMatched \cup {navUrl}
  /\ navPc' = "awaitMatch"
  /\ UNCHANGED <<notSw, navUrl, networkResponse, navPut, navReturned, actVars>>

\* caches.open in the catch block rejects: so does the async function.
OpenForMatchFail ==
  /\ navPc = "awaitOpenForMatch"
  /\ NavReturn(<<"rejected">>)
  /\ UNCHANGED <<notSw, cacheStore, navUrl, networkResponse, navPut, navMatched, actVars>>

\* cache.match(event.request) fulfils: a cached response is returned, else
\* cache.match('/') is called and awaited.
MatchRequest ==
  /\ navPc = "awaitMatch"
  /\ IF navUrl \in cacheStore[CACHE_NAME]
     THEN NavReturn(<<"cached", navUrl>>) /\ UNCHANGED navMatched
     ELSE navPc' = "awaitMatchRoot" /\ navMatched' = navMatched \cup {"/"}
          /\ UNCHANGED navReturned
  /\ UNCHANGED <<notSw, cacheStore, navUrl, networkResponse, navPut, actVars>>

\* cache.match('/') fulfils, with the cached response or undefined.
MatchRoot ==
  /\ navPc = "awaitMatchRoot"
  /\ NavReturn(IF "/" \in cacheStore[CACHE_NAME] THEN <<"cached", "/">> ELSE <<"undefined">>)
  /\ UNCHANGED <<notSw, cacheStore, navUrl, networkResponse, navPut, navMatched, actVars>>

\* The cache.put that was not awaited settles.
PutStored ==
  /\ navPut = "pending"
  /\ navPut' = "stored"
  /\ cacheStore' = [cacheStore EXCEPT ![CACHE_NAME] = @ \cup {navUrl}]
  /\ UNCHANGED <<notSw, navUrl, navPc, networkResponse, navMatched, navReturned, actVars>>

PutFailed ==
  /\ navPut = "pending"
  /\ navPut' = "failed"
  /\ UNCHANGED <<notSw, cacheStore, navUrl, navPc, networkResponse, navMatched, navReturned,
                 actVars>>

\* The test of the map callback of the activate handler.
ShouldDelete_Every(key) == TRUE
ShouldDelete(key) == key # CACHE_NAME

\* caches.keys() fulfils: caches.delete is called for every key that is not
\* CACHE_NAME and Promise.all of them is awaited; with nothing to delete it
\* fulfils at once and self.clients.claim() is called.
KeysOk ==
  /\ actPc = "awaitKeys"
  /\ deletes' = [key \in {k \in DOMAIN cacheStore : ShouldDelete(k)} |-> "pending"]
  /\ actPc' = IF DOMAIN deletes' = {} THEN "claimed" ELSE "awaitDeletes"
  /\ UNCHANGED <<notSw, cacheStore, navVars>>

\* caches.keys() rejects: the promise given to waitUntil rejects.
KeysFail ==
  /\ actPc = "awaitKeys"
  /\ actPc' = "rejected"
  /\ UNCHANGED <<notSw, cacheStore, navVars, deletes>>

\* A caches.delete fulfils: the cache is gone.  When it is the last one,
\* Promise.all fulfils and self.clients.claim() is called.
DeleteOk(key) ==
  /\ key \in DOMAIN deletes
  /\ deletes[key] = "pending"
  /\ deletes' = [deletes EXCEPT ![key] = "ok"]
  /\ cacheStore' = [n \in DOMAIN cacheStore \ {key} |-> cacheStore[n]]
  /\ actPc' = IF actPc = "awaitDeletes" /\ \A k \in DOMAIN deletes : deletes'[k] = "ok"
              THEN "claimed" ELSE actPc
  /\ UNCHANGED <<notSw, navVars>>

\* A caches.delete rejects: Promise.all rejects with it, claim is not called;
\* the other deletions go on.
DeleteFail(key) ==
  /\ key \in DOMAIN deletes
  /\ deletes[key] = "pending"
  /\ deletes' = [deletes EXCEPT ![key] = "failed"]
  /\ actPc' = IF actPc = "awaitDeletes" THEN "rejected" ELSE actPc
  /\ UNCHANGED <<notSw, cacheStore, navVars>>

SwNext ==
  \/ \E ok \in BOOLEAN : NetworkFulfilled(ok)
  \/ NetworkRejected
  \/ OpenForPutOk
  \/ OpenForPutFail
  \/ OpenForMatchOk
  \/ OpenForMatchFail
  \/ MatchRequest
  \/ MatchRoot
  \/ PutStored
  \/ PutFailed
  \/ KeysOk
  \/ KeysFail
  \/ \E key \in CacheNames : DeleteOk(key)
  \/ \E key \in CacheNames : DeleteFail(key)

SwSpec == SwInit /\ [][SwNext]_vars

SwTypeOK ==
  /\ DOMAIN cacheStore \subseteq CacheNames
  /\ \A n \in DOMAIN cacheStore : cacheStore[n] \subseteq NavUrls
  /\ navPc \in {"idle", "awaitFetch", "awaitOpenForPut", "awaitOpenForMatch", "awaitMatch",
                "awaitMatchRoot", "done"}
  /\ networkResponse \in {"pending", "ok", "notOk", "failed"}
  /\ navPut \in {"none", "pending", "stored", "failed"}
  /\ navMatched \subseteq NavUrls
  /\ actPc \in {"idle", "awaitKeys", "awaitDeletes", "claimed", "rejected"}
  /\ DOMAIN deletes \subseteq CacheNames

\* What the catch block returns from the cache.
FromCache ==
  IF navUrl \in cacheStore[CACHE_NAME] THEN <<"cached", navUrl>>
  ELSE IF "/" \in cacheStore[CACHE_NAME] THEN <<"cached", "/">>
  ELSE <<"undefined">>

\* C24: the navigation fetch is network-first.  When fetch(event.request)
\* fulfilled, the handler returns the network response; cache.put is called
\* only for an ok response; cache.match is called only when the fetch
\* rejected, and then the handler returns the cached response for the
\* request if there is one and otherwise the cached '/' entry.
C24_NetworkFirst ==
  /\ (navPc = "done" /\ networkResponse \in {"ok", "notOk"}) =>
       navReturned = <<"networkResponse">>
  /\ navPut # "none" => networkResponse = "ok"
  /\ navMatched # {} => networkResponse = "failed"
  /\ (navPc = "done" /\ networkResponse = "failed" /\ navReturned # <<"rejected">>) =>
       navReturned = FromCache

\* C25: activation cache cleanup.  When the activate handler has completed
\* (self.clients.claim() has been called), every deletion has fulfilled and
\* CacheStorage holds no cache under another name than CACHE_NAME; the
\* handler never deletes or changes the cache named CACHE_NAME; and claim is
\* not called while a deletion is pending.
C25_ActivateCleanup ==
  /\ [](actPc = "claimed" =>
          /\ \A key \in DOMAIN deletes : deletes[key] = "ok"
          /\ DOMAIN cacheStore \subseteq {CACHE_NAME})
  /\ [](CACHE_NAME \notin DOMAIN deletes)
  /\ [][(actPc # "idle" /\ CACHE_NAME \in DOMAIN cacheStore) =>
          (CACHE_NAME \in DOMAIN cacheStore' /\ cacheStore'[CACHE_NAME] = cacheStore[CACHE_NAME])]_vars

\* Two other caches have been deleted, the worker's cache is there with its
\* two pages, and the clients have been claimed.
C25_Witness ==
  /\ actPc = "claimed"
  /\ DOMAIN deletes = CacheNames \ {CACHE_NAME}
  /\ \A key \in DOMAIN deletes : deletes[key] = "ok"
  /\ DOMAIN cacheStore = {CACHE_NAME}
  /\ cacheStore[CACHE_NAME] = Pages

====
